---- MODULE Spec2Model ----
(***************************************************************************)
(* The lambda-calculus reduction engine of solfunmeme-metameme             *)
(* (crates/lambda-calculus-core/src/lib.rs): the Expr term type, its       *)
(* textual rendering, substitution, the one-step rewrite beta_reduce, the  *)
(* bounded normalize loop, create_quine and evolve; and the HTTP server    *)
(* of crates/minimal-runtime-server, whose handlers share one runtime      *)
(* behind a mutex.                                                         *)
(*                                                                         *)
(* Terms are tagged tuples, the tag first:                                 *)
(*   <<"Var", n>>  <<"Lambda", p, body>>  <<"App", l, r>>  <<"Sym", s>>     *)
(*   <<"S">>  <<"K">>  <<"I">>  <<"Muse", n, millis>>  <<"Quine", e>>       *)
(*   <<"DNA", bytes>>                                                      *)
(* Result<Option<Expr>> is <<"None">> or <<"Some", e>>; no path of the     *)
(* modelled functions builds an Err.                                       *)
(***************************************************************************)
EXTENDS Integers, Sequences, FiniteSets, TLC

VARIABLES
    max_steps,      \* LambdaEngine.max_steps
    environment,    \* LambdaEngine.environment: name -> Expr
    trace,          \* LambdaEngine.trace: Vec<Expr>
    expr,           \* the term the caller holds (argument of the next call)
    pc,             \* "idle" | "loop" | "returned": position inside normalize
    current,        \* normalize's local `current`
    step_count,     \* normalize's local `step_count`
    result,         \* the ReductionTrace of the last normalize call
    derived,        \* how many terms the caller has derived from its input
    arg,            \* the arguments of a function applied on its own
    out,            \* what that function returned
    frames,         \* the nested calls of evolve in progress, outermost first
    mutex,          \* AppState's Mutex: None, or Some(handler) holding it
    runtime,        \* MetaMemeRuntime: sessions, poems_cache, nft_cache
    handlers        \* the HTTP requests accepted so far, in order of arrival

vars == <<max_steps, environment, trace, expr, pc, current, step_count,
          result, derived, arg, out, frames, mutex, runtime, handlers>>

call == <<arg, out, frames>>

engine == <<max_steps, environment, trace, expr, pc, current, step_count,
            result, derived, arg, out, frames>>

server == <<mutex, runtime, handlers>>

-----------------------------------------------------------------------------
(* Bounds of the exploration *)

MaxBudget == 4          \* with_max_steps(n) is explored for n in 0..MaxBudget
MaxDerived == 1         \* evolve / create_quine / re-submission chain length
MaxRequests == 3        \* HTTP requests the server accepts in one run
LongRunDepth == 4       \* length of the runs explored under larger budgets

(* Program constants *)

DefaultMaxSteps == 1000     \* LambdaEngine::new
ResonanceScale == 1000      \* Muse millis per unit of resonance

-----------------------------------------------------------------------------
(* Expr constructors (impl Expr) *)

var(name) == <<"Var", name>>
lambda(v, body) == <<"Lambda", v, body>>
app(left, right) == <<"App", left, right>>
sym(symbol) == <<"Sym", symbol>>
S == <<"S">>
K == <<"K">>
I == <<"I">>
Muse(name, resonance) == <<"Muse", name, resonance>>
quine(e) == <<"Quine", e>>
dna(data) == <<"DNA", data>>

Tag(e) == e[1]

None == <<"None">>
Some(e) == <<"Some", e>>
IsSome(o) == o[1] = "Some"
Unwrap(o) == o[2]

(* `(x as f64 / 1000.0 * 1000.0) as u32`: the f64 round trip that Expr::muse
   applies to a millis value divided by 1000.0.  In IEEE-754 double
   arithmetic the product falls just below the integer for the odd values
   1001..1023 (and for no other value below 2002), and the cast truncates. *)
MillisRoundTrip(n) ==
    IF n >= 1001 /\ n <= 1023 /\ n % 2 = 1 THEN n - 1 ELSE n

(* Expr::muse(name, millis as f64 / 1000.0) *)
muse(name, millis) == Muse(name, MillisRoundTrip(millis))

(* Expr::y_combinator *)
y_inner == lambda("x", app(var("f"), app(var("x"), var("x"))))

(* the Y-combinator with the self-application missing from its first half *)
y_combinator_half == lambda("f", app(lambda("x", app(var("f"), var("x"))), y_inner))

y_combinator == lambda("f", app(y_inner, y_inner))

(* Expr::metameme_combinator *)
metameme_combinator == app(app(S, app(K, S)), K)

-----------------------------------------------------------------------------
(* impl fmt::Display for Expr.  The source prints a Greek lambda and three
   pictographs; strings here hold ASCII only, so each of the four is
   written as one ASCII character that no name or symbol of the model
   contains.  `{:.2}` on a u32 prints the plain integer. *)

GlyphLambda == "^"
GlyphMuse == "@"
GlyphQuine == "~"
GlyphDna == "#"

RECURSIVE Display(_)
Display(e) ==
    CASE Tag(e) = "Var" -> e[2]
      [] Tag(e) = "Lambda" -> GlyphLambda \o e[2] \o "." \o Display(e[3])
      [] Tag(e) = "App" -> "(" \o Display(e[2]) \o " " \o Display(e[3]) \o ")"
      [] Tag(e) = "Sym" -> e[2]
      [] Tag(e) = "S" -> "S"
      [] Tag(e) = "K" -> "K"
      [] Tag(e) = "I" -> "I"
      [] Tag(e) = "Muse" -> GlyphMuse \o e[2] \o "[" \o ToString(e[3]) \o "]"
      [] Tag(e) = "Quine" -> GlyphQuine \o "Q(" \o Display(e[2]) \o ")"
      [] Tag(e) = "DNA" -> GlyphDna \o "DNA[" \o ToString(Len(e[2])) \o "]"

-----------------------------------------------------------------------------
(* LambdaEngine::substitute *)

RECURSIVE substitute(_, _, _)

(* substitute with the name test of the Variable arm inverted *)
substitute_other_names(body, v, replacement) ==
    CASE Tag(body) = "Var" ->
            IF body[2] # v THEN replacement ELSE body
      [] Tag(body) = "Lambda" ->
            IF body[2] = v
            THEN body
            ELSE lambda(body[2], substitute(body[3], v, replacement))
      [] Tag(body) = "App" ->
            app(substitute(body[2], v, replacement),
                substitute(body[3], v, replacement))
      [] OTHER -> body

(* substitute avoiding capture: a binder other than v is renamed to "w" *)
substitute_renaming(body, v, replacement) ==
    CASE Tag(body) = "Var" ->
            IF body[2] = v THEN replacement ELSE body
      [] Tag(body) = "Lambda" ->
            IF body[2] = v
            THEN body
            ELSE lambda("w", substitute(substitute(body[3], body[2], var("w")),
                                        v, replacement))
      [] Tag(body) = "App" ->
            app(substitute(body[2], v, replacement),
                substitute(body[3], v, replacement))
      [] OTHER -> body

substitute(body, v, replacement) ==
    CASE Tag(body) = "Var" ->
            IF body[2] = v THEN replacement ELSE body
      [] Tag(body) = "Lambda" ->
            IF body[2] = v
            THEN body
            ELSE lambda(body[2], substitute(body[3], v, replacement))
      [] Tag(body) = "App" ->
            app(substitute(body[2], v, replacement),
                substitute(body[3], v, replacement))
      [] OTHER -> body

-----------------------------------------------------------------------------
(* LambdaEngine::beta_reduce *)

(* `((resonance_f64 + 0.001) * 1000.0) as u32` for resonance < 1000: in
   IEEE-754 double arithmetic the product is resonance + 1 up to rounding,
   and it falls below resonance + 1 exactly for resonance 9 and 13, where
   the cast truncates it back to resonance. *)
MuseIncrement(resonance) ==
    IF resonance \in {9, 13} THEN resonance ELSE resonance + 1

(* `((resonance as f64 / 1000.0) * 1.01 * 1000.0) as u32`: equal to
   floor(resonance * 101 / 100) for every resonance below 1700. *)
MuseBonus(resonance) == (resonance * 101) \div 100

RECURSIVE beta_reduce(_, _)

(* the fall-through arms reducing the right operand before the left one *)
ReduceOperands_right_first(left, right, env) ==
    LET reduced_right == beta_reduce(right, env) IN
    IF IsSome(reduced_right)
    THEN Some(app(left, Unwrap(reduced_right)))
    ELSE LET reduced_left == beta_reduce(left, env) IN
         IF IsSome(reduced_left)
         THEN Some(app(Unwrap(reduced_left), right))
         ELSE None

(* the fall-through arms reducing both operands in one step *)
ReduceOperands_both(left, right, env) ==
    LET reduced_left == beta_reduce(left, env)
        reduced_right == beta_reduce(right, env)
    IN  IF IsSome(reduced_left) \/ IsSome(reduced_right)
        THEN Some(app(IF IsSome(reduced_left) THEN Unwrap(reduced_left) ELSE left,
                      IF IsSome(reduced_right) THEN Unwrap(reduced_right) ELSE right))
        ELSE None

(* the fall-through arms: reduce the left operand, else the right one *)
ReduceOperands(left, right, env) ==
    LET reduced_left == beta_reduce(left, env) IN
    IF IsSome(reduced_left)
    THEN Some(app(Unwrap(reduced_left), right))
    ELSE LET reduced_right == beta_reduce(right, env) IN
         IF IsSome(reduced_right)
         THEN Some(app(left, Unwrap(reduced_right)))
         ELSE None

(* the nested arm with the K law returning the second argument *)
ReduceNested_k_second(left, right, env) ==
    LET inner_left == left[2]
        inner_right == left[3]
    IN  IF Tag(inner_left) = "App" /\ inner_left[2] = S
        THEN Some(app(app(inner_left[3], right), app(inner_right, right)))
        ELSE IF inner_left = K
        THEN Some(right)
        ELSE ReduceOperands(left, right, env)

(* the nested arm with the S law building (f g) x *)
ReduceNested_s_flat(left, right, env) ==
    LET inner_left == left[2]
        inner_right == left[3]
    IN  IF Tag(inner_left) = "App" /\ inner_left[2] = S
        THEN Some(app(app(inner_left[3], inner_right), right))
        ELSE IF inner_left = K
        THEN Some(inner_right)
        ELSE ReduceOperands(left, right, env)

(* the nested arm rewriting inside the application before the S law *)
ReduceNested_operands_first(left, right, env) ==
    LET inner_left == left[2]
        inner_right == left[3]
        inside == ReduceOperands(left, right, env)
    IN  IF IsSome(inside)
        THEN inside
        ELSE IF Tag(inner_left) = "App" /\ inner_left[2] = S
        THEN Some(app(app(inner_left[3], right), app(inner_right, right)))
        ELSE IF inner_left = K
        THEN Some(inner_right)
        ELSE None

ReduceNested(left, right, env) ==
    LET inner_left == left[2]
        inner_right == left[3]
    IN  IF Tag(inner_left) = "App" /\ inner_left[2] = S
        THEN Some(app(app(inner_left[3], right), app(inner_right, right)))
        ELSE IF inner_left = K
        THEN Some(inner_right)
        ELSE ReduceOperands(left, right, env)

(* the application arms with I returning itself instead of its argument *)
ReduceApp_i_left(left, right, env) ==
    CASE Tag(left) = "Lambda" -> Some(substitute(left[3], left[2], right))
      [] Tag(left) = "S" -> Some(app(app(S, right), I))
      [] Tag(left) = "K" -> Some(app(K, right))
      [] Tag(left) = "I" -> Some(left)
      [] Tag(left) = "App" -> ReduceNested(left, right, env)
      [] Tag(left) = "Muse" ->
            Some(muse(left[2] \o "+" \o Display(right), MuseBonus(left[3])))
      [] Tag(left) = "Quine" -> Some(quine(app(left[2], right)))
      [] OTHER -> ReduceOperands(left, right, env)

(* the application arms with S waiting for more arguments: S applied to
   one argument is left to the fall-through *)
ReduceApp_s_waits(left, right, env) ==
    CASE Tag(left) = "Lambda" -> Some(substitute(left[3], left[2], right))
      [] Tag(left) = "S" -> ReduceOperands(left, right, env)
      [] Tag(left) = "K" -> Some(app(K, right))
      [] Tag(left) = "I" -> Some(right)
      [] Tag(left) = "App" -> ReduceNested(left, right, env)
      [] Tag(left) = "Muse" ->
            Some(muse(left[2] \o "+" \o Display(right), MuseBonus(left[3])))
      [] Tag(left) = "Quine" -> Some(quine(app(left[2], right)))
      [] OTHER -> ReduceOperands(left, right, env)

ReduceApp(left, right, env) ==
    CASE Tag(left) = "Lambda" -> Some(substitute(left[3], left[2], right))
      [] Tag(left) = "S" -> Some(app(app(S, right), I))
      [] Tag(left) = "K" -> Some(app(K, right))
      [] Tag(left) = "I" -> Some(right)
      [] Tag(left) = "App" -> ReduceNested(left, right, env)
      [] Tag(left) = "Muse" ->
            Some(muse(left[2] \o "+" \o Display(right), MuseBonus(left[3])))
      [] Tag(left) = "Quine" -> Some(quine(app(left[2], right)))
      [] OTHER -> ReduceOperands(left, right, env)

(* beta_reduce with the bare Quine arm returning the Quine re-wrapped *)
beta_reduce_quine_kept(e, env) ==
    CASE Tag(e) = "Var" ->
            IF e[2] \in DOMAIN env THEN Some(env[e[2]]) ELSE None
      [] Tag(e) = "Lambda" -> None
      [] Tag(e) = "App" -> ReduceApp(e[2], e[3], env)
      [] Tag(e) \in {"S", "K", "I", "Sym", "DNA"} -> None
      [] Tag(e) = "Muse" ->
            IF e[3] < ResonanceScale
            THEN Some(Muse(e[2], MuseIncrement(e[3])))
            ELSE None
      [] Tag(e) = "Quine" -> Some(quine(e[2]))

(* beta_reduce with an unbound variable rewritten to itself *)
beta_reduce_var_kept(e, env) ==
    CASE Tag(e) = "Var" ->
            IF e[2] \in DOMAIN env THEN Some(env[e[2]]) ELSE Some(e)
      [] Tag(e) = "Lambda" -> None
      [] Tag(e) = "App" -> ReduceApp(e[2], e[3], env)
      [] Tag(e) \in {"S", "K", "I", "Sym", "DNA"} -> None
      [] Tag(e) = "Muse" ->
            IF e[3] < ResonanceScale
            THEN Some(Muse(e[2], MuseIncrement(e[3])))
            ELSE None
      [] Tag(e) = "Quine" -> Some(e[2])

(* beta_reduce rewriting inside the body of an abstraction *)
beta_reduce_under_lambda(e, env) ==
    CASE Tag(e) = "Var" ->
            IF e[2] \in DOMAIN env THEN Some(env[e[2]]) ELSE None
      [] Tag(e) = "Lambda" ->
            LET reduced_body == beta_reduce(e[3], env) IN
            IF IsSome(reduced_body)
            THEN Some(lambda(e[2], Unwrap(reduced_body)))
            ELSE None
      [] Tag(e) = "App" -> ReduceApp(e[2], e[3], env)
      [] Tag(e) \in {"S", "K", "I", "Sym", "DNA"} -> None
      [] Tag(e) = "Muse" ->
            IF e[3] < ResonanceScale
            THEN Some(Muse(e[2], MuseIncrement(e[3])))
            ELSE None
      [] Tag(e) = "Quine" -> Some(e[2])

beta_reduce(e, env) ==
    CASE Tag(e) = "Var" ->
            IF e[2] \in DOMAIN env THEN Some(env[e[2]]) ELSE None
      [] Tag(e) = "Lambda" -> None
      [] Tag(e) = "App" -> ReduceApp(e[2], e[3], env)
      [] Tag(e) \in {"S", "K", "I", "Sym", "DNA"} -> None
      [] Tag(e) = "Muse" ->
            IF e[3] < ResonanceScale
            THEN Some(Muse(e[2], MuseIncrement(e[3])))
            ELSE None
      [] Tag(e) = "Quine" -> Some(e[2])

-----------------------------------------------------------------------------
(* LambdaEngine::create_quine *)

(* create_quine with the seed applied the other way round *)
create_quine_flipped(seed) ==
    LET self_ref == lambda("x", app(var("x"), var("x")))
        quine_body == app(self_ref, lambda("y", app(var("y"), sym(seed))))
    IN  quine(quine_body)

(* create_quine whose second abstraction drops its argument *)
create_quine_constant(seed) ==
    LET self_ref == lambda("x", app(var("x"), var("x")))
        quine_body == app(self_ref, lambda("y", sym(seed)))
    IN  quine(quine_body)

create_quine(seed) ==
    LET self_ref == lambda("x", app(var("x"), var("x")))
        quine_body == app(self_ref, lambda("y", app(sym(seed), var("y"))))
    IN  quine(quine_body)

-----------------------------------------------------------------------------
(* LambdaEngine::evolve.  The random source is a free choice: the uniform
   draw u in [0, 1) is below mutation_rate for some u iff the rate is
   positive, and not below it for some u iff the rate is less than 1.  A
   rate is the pair <<numerator, denominator>>. *)

mutations == <<"cyclone", "masks", "dna", "star", "dizzy", "crystal">>

Half(rt) == <<rt[1], 2 * rt[2]>>
(* the draw compared with <= instead of < *)
MayMutate_or_equal(rt) == rt[1] >= 0

MayMutate(rt) == rt[1] > 0
MaySkip(rt) == rt[1] < rt[2]

Clamp(v, lo, hi) == IF v < lo THEN lo ELSE IF v > hi THEN hi ELSE v

(* `((resonance_f64 + delta).clamp(0.0, 1.0) * 1000.0) as u32` with delta
   drawn by gen_range(-0.1..0.1), computed in IEEE-754 doubles.  The draw
   is value0_1 * 0.2 + (-0.1) with value0_1 a multiple of 2^-52 in [0, 1),
   so delta runs from -0.1 itself up to the double just below 0.1, and the
   result takes every value between its two ends.  At delta = -0.1 the sum
   falls just below (resonance - 100) / 1000 for the resonances of
   EvolveLowSlip, where the cast gives resonance - 101; at the largest
   delta the product reaches resonance + 100 except for the resonances of
   EvolveHighShort, where it stays below and the cast gives resonance + 99. *)
EvolveLowSlip ==
    (102..114) \cup (118..129) \cup (141..158) \cup (172..185) \cup (204..216)
    \cup (235..240) \cup (282..302) \cup (344..350) \cup (407..442)
    \cup (563..567) \cup {r \in 1001..1035 : r % 2 = 1}

EvolveHighShort ==
    (0..242) \cup (282..367) \cup (407..460) \cup (563..585) \cup (688..710)
    \cup (813..835)

EvolveLow(resonance) ==
    IF resonance \in EvolveLowSlip
    THEN resonance - 101
    ELSE Clamp(resonance - 100, 0, ResonanceScale)

EvolveHigh(resonance) ==
    IF resonance \in EvolveHighShort
    THEN resonance + 99
    ELSE Clamp(resonance + 100, 0, ResonanceScale)

(* the outcomes of the mutation branch, and of evolve, in which every new
   Muse resonance lies in the set `among` *)
RECURSIVE EvolveAmong(_, _, _)
MutatedAmong(e, rt, among) ==
    CASE Tag(e) = "Muse" ->
            {Muse(e[2], n) :
                n \in {v \in among : v >= EvolveLow(e[3]) /\ v <= EvolveHigh(e[3])}}
      [] Tag(e) = "Sym" ->
            {sym(mutations[i]) : i \in 1..Len(mutations)}
      [] Tag(e) = "App" ->
            {app(l, e[3]) : l \in EvolveAmong(e[2], Half(rt), among)}
            \cup {app(e[2], r) : r \in EvolveAmong(e[3], Half(rt), among)}
      [] OTHER -> {e}

EvolveAmong(e, rt, among) ==
    (IF MayMutate(rt) THEN MutatedAmong(e, rt, among) ELSE {})
    \cup (IF MaySkip(rt) THEN {e} ELSE {})

(* the set of terms the mutation branch can return *)
Mutated(e, rt) == MutatedAmong(e, rt, 0..ResonanceScale)

(* the set of terms evolve(e, rt) can return *)
evolve(e, rt) == EvolveAmong(e, rt, 0..ResonanceScale)

-----------------------------------------------------------------------------
(* The terms, bindings and budgets explored *)

Symbols == {"a", "b"}
Seeds == {"seed", "b"}
BindNames == {"x", "y"}
BindValues == {var("y")}
Budgets == 0..MaxBudget \cup {DefaultMaxSteps}
Rates == {<<0, 1>>, <<1, 2>>, <<1, 1>>}

(* the resonances of the Muse leaves of t *)
RECURSIVE Resonances(_)
Resonances(t) ==
    CASE Tag(t) = "Muse" -> {t[3]}
      [] Tag(t) = "Lambda" -> Resonances(t[3])
      [] Tag(t) = "App" -> Resonances(t[2]) \cup Resonances(t[3])
      [] Tag(t) = "Quine" -> Resonances(t[2])
      [] OTHER -> {}

SampledResonances == {0, 8, 108, 898, 900, 997, 999, 1000}

(* the symbols of the Sym leaves of t *)
RECURSIVE SymbolsOf(_)
SymbolsOf(t) ==
    CASE Tag(t) = "Sym" -> {t[2]}
      [] Tag(t) = "Lambda" -> SymbolsOf(t[3])
      [] Tag(t) = "App" -> SymbolsOf(t[2]) \cup SymbolsOf(t[3])
      [] Tag(t) = "Quine" -> SymbolsOf(t[2])
      [] OTHER -> {}

SampledSymbols == {"cyclone", "crystal"}

identity == lambda("x", var("x"))

Atoms ==
    {var("x"), sym("a"), S, K, I, Muse("m", 998), identity, quine(sym("a"))}

Flat == Atoms \cup {app(l, r) : l, r \in Atoms}

(* the abstractions the Y-combinator is applied to *)
YArgs ==
    {lambda(p, b) : p \in {"g", "x", "f"},
                    b \in {var("g"), var("x"), var("f"), sym("a"),
                           app(sym("a"), var("g"))}}

Laws ==
    {app(identity, sym(y)) : y \in Symbols}
    \cup {app(I, sym(z)) : z \in Symbols}
    \cup {app(app(K, a), b) : a \in {sym("a"), identity}, b \in {sym("b"), Muse("m", 998)}}
    \cup {app(app(app(S, K), K), sym(x)) : x \in Symbols}
    \cup {app(app(app(S, I), I), sym(x)) : x \in Symbols}
    \cup {app(y_combinator, F) : F \in YArgs}
    \cup {app(lambda("x", b), sym("a")) :
            b \in {quine(var("x")), lambda("y", var("x")), lambda("x", var("x")),
                   app(var("x"), var("y"))}}
    \cup {app(app(Muse("m", 1000), sym("a")), sym("b")),
          app(sym("a"), Muse("m", 1000)), app(var("y"), dna(<<1, 2>>)),
          Muse("m", 9), metameme_combinator, quine(sym("b")), var("y"),
          lambda("z", app(I, var("x"))), dna(<<1, 2>>),
          app(var("y"), app(I, dna(<<1, 2>>)))}

Inputs == Flat \cup Laws

(* the runs explored under a budget above MaxBudget: those that reach a
   fixed point within LongRunDepth steps, and one that never does *)
RECURSIVE EndsWithin(_, _, _)
EndsWithin(t, env, k) ==
    LET reduced == beta_reduce(t, env) IN
    IF IsSome(reduced)
    THEN k > 0 /\ EndsWithin(Unwrap(reduced), env, k - 1)
    ELSE TRUE

Endless == {app(y_combinator, lambda("g", var("g")))}

LongRun(t, env) == t \in Endless \/ EndsWithin(t, env, LongRunDepth)

EmptyEnvironment == [n \in {} |-> sym(n)]

(* what the caller holds before normalize has returned anything *)
NoResult == [steps |-> <<>>, step_count |-> 0, final_form |-> I,
             is_normal_form |-> FALSE]

(* MetaMemeRuntime::new: the three maps start empty *)
MetaMemeRuntime_new ==
    [sessions |-> {}, poems_cache |-> {}, nft_cache |-> <<>>]

(* a server that has accepted no request *)
NoRequests ==
    /\ mutex = None
    /\ runtime = MetaMemeRuntime_new
    /\ handlers = <<>>

-----------------------------------------------------------------------------
(* The engine and its caller *)

Init ==
    /\ max_steps = DefaultMaxSteps           \* LambdaEngine::new
    /\ environment = EmptyEnvironment
    /\ trace = <<>>
    /\ expr \in Inputs
    /\ pc = "idle"
    /\ current = I
    /\ step_count = 0
    /\ result = NoResult
    /\ derived = 0
    /\ arg = <<>>
    /\ out = <<>>
    /\ frames = <<>>
    /\ NoRequests

Idle == pc \in {"idle", "returned"}

(* normalize's locals and the trace it returned go out of scope when the
   caller moves on; the engine's own trace field stays as the call left it *)
Forget ==
    /\ pc' = "idle"
    /\ current' = I
    /\ step_count' = 0
    /\ result' = NoResult

(* LambdaEngine::with_max_steps *)
WithMaxSteps(n) ==
    /\ Idle
    /\ max_steps' = n
    /\ Forget
    /\ UNCHANGED <<environment, trace, expr, derived, call,
                   server>>

(* a bind that starts from a fresh map *)
Bind_only(name, t) ==
    /\ Idle
    /\ environment' = [n \in {name} |-> t]
    /\ Forget
    /\ UNCHANGED <<max_steps, trace, expr, derived, call,
                   server>>

(* LambdaEngine::bind *)
Bind(name, t) ==
    /\ Idle
    /\ environment' = [n \in DOMAIN environment \cup {name} |->
                            IF n = name THEN t ELSE environment[n]]
    /\ Forget
    /\ UNCHANGED <<max_steps, trace, expr, derived, call,
                   server>>

(* normalize entered without trace.clear() *)
NormalizeCall_keeps_trace ==
    /\ Idle
    /\ max_steps <= MaxBudget \/ LongRun(expr, environment)
    /\ trace' = Append(trace, expr)
    /\ current' = expr
    /\ step_count' = 0
    /\ pc' = "loop"
    /\ UNCHANGED <<max_steps, environment, expr, result, derived, call,
                   server>>

(* normalize entered with step_count carried over from the last call *)
NormalizeCall_counts_on ==
    /\ Idle
    /\ max_steps <= MaxBudget \/ LongRun(expr, environment)
    /\ trace' = <<expr>>
    /\ current' = expr
    /\ step_count' = IF trace = <<>> THEN 0 ELSE Len(trace) - 1
    /\ pc' = "loop"
    /\ UNCHANGED <<max_steps, environment, expr, result, derived, call,
                   server>>

(* LambdaEngine::normalize, entry: the trace is cleared and seeded *)
NormalizeCall ==
    /\ Idle
    /\ max_steps <= MaxBudget \/ LongRun(expr, environment)
    /\ trace' = <<expr>>
    /\ current' = expr
    /\ step_count' = 0
    /\ pc' = "loop"
    /\ UNCHANGED <<max_steps, environment, expr, result, derived, call,
                   server>>

(* the loop iteration with the budget test off by one *)
NormalizeStep_one_more ==
    /\ pc = "loop"
    /\ step_count <= max_steps
    /\ LET reduced == beta_reduce(current, environment) IN
        /\ IsSome(reduced)
        /\ current' = Unwrap(reduced)
        /\ trace' = Append(trace, Unwrap(reduced))
        /\ step_count' = step_count + 1
    /\ UNCHANGED <<max_steps, environment, expr, pc, result, derived, call,
                   server>>

(* one iteration of the while loop in which beta_reduce returns Some *)
NormalizeStep ==
    /\ pc = "loop"
    /\ step_count < max_steps
    /\ LET reduced == beta_reduce(current, environment) IN
        /\ IsSome(reduced)
        /\ current' = Unwrap(reduced)
        /\ trace' = Append(trace, Unwrap(reduced))
        /\ step_count' = step_count + 1
    /\ UNCHANGED <<max_steps, environment, expr, pc, result, derived, call,
                   server>>

(* the return with the flag computed as step_count <= max_steps *)
NormalizeReturn_flag_at_budget ==
    /\ pc = "loop"
    /\ step_count >= max_steps \/ ~IsSome(beta_reduce(current, environment))
    /\ result' = [steps |-> [i \in 1..Len(trace) |-> Display(trace[i])],
                  step_count |-> step_count,
                  final_form |-> current,
                  is_normal_form |-> step_count <= max_steps]
    /\ pc' = "returned"
    /\ UNCHANGED <<max_steps, environment, trace, expr, current, step_count, derived, call,
                   server>>

(* the loop ends (condition false, or beta_reduce returned None and the
   loop breaks) and the ReductionTrace is built and returned *)
NormalizeReturn ==
    /\ pc = "loop"
    /\ step_count >= max_steps \/ ~IsSome(beta_reduce(current, environment))
    /\ result' = [steps |-> [i \in 1..Len(trace) |-> Display(trace[i])],
                  step_count |-> step_count,
                  final_form |-> current,
                  is_normal_form |-> step_count < max_steps]
    /\ pc' = "returned"
    /\ UNCHANGED <<max_steps, environment, trace, expr, current, step_count, derived, call,
                   server>>

(* the caller evolves its term; of the resonances evolve can give a Muse
   and the symbols it can give a Sym, those of SampledResonances and
   SampledSymbols are followed *)
Evolve(rt) ==
    /\ Idle
    /\ derived < MaxDerived
    /\ expr' \in {t \in EvolveAmong(expr, rt, SampledResonances \cup Resonances(expr)) :
                    SymbolsOf(t) \subseteq SampledSymbols \cup SymbolsOf(expr)}
    /\ derived' = derived + 1
    /\ Forget
    /\ UNCHANGED <<max_steps, environment, trace, call,
                   server>>

(* the caller builds a quine *)
CreateQuine(seed) ==
    /\ Idle
    /\ derived < MaxDerived
    /\ expr' = create_quine(seed)
    /\ derived' = derived + 1
    /\ Forget
    /\ UNCHANGED <<max_steps, environment, trace, call,
                   server>>

(* the caller goes on with the term normalize returned *)
Resubmit ==
    /\ pc = "returned"
    /\ derived < MaxDerived
    /\ expr' = result.final_form
    /\ derived' = derived + 1
    /\ Forget
    /\ UNCHANGED <<max_steps, environment, trace, call,
                   server>>

(* the engine alone *)
NextEngine ==
    \/ \E n \in Budgets : WithMaxSteps(n)
    \/ \E name \in BindNames, t \in BindValues : Bind(name, t)
    \/ NormalizeCall
    \/ NormalizeStep
    \/ NormalizeReturn

(* the engine and a caller that derives new terms *)
Next ==
    \/ NextEngine
    \/ \E rt \in Rates : Evolve(rt)
    \/ \E seed \in Seeds : CreateQuine(seed)
    \/ Resubmit

Spec == Init /\ [][Next]_vars

-----------------------------------------------------------------------------
(* The K law on its own: the engine run on applications K a b *)

KFirst ==
    Atoms \cup {var("y"), dna(<<1, 2>>), Muse("m", 1000), app(sym("a"), sym("b")),
                app(I, sym("a")), lambda("y", app(I, var("y")))}

KSecond ==
    {sym("b"), var("y"), Muse("m", 998), quine(sym("a")), app(I, sym("a")),
     app(K, sym("a")), app(y_combinator, identity)}

KInputs == {app(app(K, a), b) : a \in KFirst, b \in KSecond}

InitK ==
    /\ max_steps = DefaultMaxSteps
    /\ environment = EmptyEnvironment
    /\ trace = <<>>
    /\ expr \in KInputs
    /\ pc = "idle"
    /\ current = I
    /\ step_count = 0
    /\ result = NoResult
    /\ derived = 0
    /\ arg = <<>>
    /\ out = <<>>
    /\ frames = <<>>
    /\ NoRequests

SpecK == InitK /\ [][NextEngine]_vars

-----------------------------------------------------------------------------
(* substitute on its own *)

SubstBodies ==
    {var("x"), var("y"), sym("a"), I, Muse("m", 500), dna(<<1>>),
     lambda("x", var("x")), lambda("y", var("x")), lambda("y", var("y")),
     lambda("y", lambda("x", var("x"))), lambda("y", lambda("z", var("x"))),
     app(var("x"), var("x")), app(var("x"), var("y")),
     app(lambda("x", var("x")), var("x")), app(sym("a"), lambda("y", var("x"))),
     app(app(S, var("x")), app(K, var("x"))),
     quine(var("x")), quine(sym("a")), quine(lambda("x", var("x"))),
     app(quine(var("x")), var("x")), lambda("y", quine(app(var("x"), var("y"))))}

SubstNames == {"x", "y"}

SubstReplacements == {sym("a"), var("y"), app(var("x"), sym("b"))}

InitSubst ==
    /\ max_steps = DefaultMaxSteps
    /\ environment = EmptyEnvironment
    /\ trace = <<>>
    /\ expr = I
    /\ pc = "idle"
    /\ current = I
    /\ step_count = 0
    /\ result = NoResult
    /\ derived = 0
    /\ arg \in SubstBodies \X SubstNames \X SubstReplacements
    /\ out = <<>>
    /\ frames = <<>>
    /\ NoRequests

ApplySubstitute ==
    /\ out = <<>>
    /\ out' = <<substitute(arg[1], arg[2], arg[3])>>
    /\ UNCHANGED <<max_steps, environment, trace, expr, pc, current, step_count,
                   result, derived, arg, frames,
                   server>>

SpecSubst == InitSubst /\ [][ApplySubstitute]_vars

-----------------------------------------------------------------------------
(* evolve on its own, call by call.  A frame is one call of evolve: its
   expr, its mutation_rate and the operand of the caller's application it
   was made on ("top" for the outermost call). *)

EvolveMuses == {Muse("m", r) : r \in {0, 9, 50, 102, 300, 500, 567, 950, 1000}}

EvolveLeaves ==
    {var("x"), sym("a"), S, K, I, dna(<<1, 2>>), quine(sym("a")),
     lambda("x", sym("a")), lambda("y", Muse("m", 500))}

EvolveTerms ==
    EvolveMuses \cup EvolveLeaves
    \cup {app(sym("a"), sym("b")), app(Muse("m", 500), sym("a")),
          app(sym("a"), Muse("m", 300)), app(I, K),
          app(app(sym("a"), sym("b")), sym("a")),
          app(sym("b"), app(Muse("m", 1000), sym("a"))),
          app(app(sym("a"), I), app(sym("b"), quine(sym("a")))),
          app(quine(sym("a")), lambda("x", sym("a"))),
          quine(app(sym("a"), sym("b"))),
          y_combinator, create_quine("seed")}

(* mutation rates 0.0, 0.5, 1.0, 2.0 and -1.0 *)
EvolveRates == {<<0, 1>>, <<1, 2>>, <<1, 1>>, <<2, 1>>, <<0 - 1, 1>>}

InitEvolve ==
    /\ max_steps = DefaultMaxSteps
    /\ environment = EmptyEnvironment
    /\ trace = <<>>
    /\ expr = I
    /\ pc = "idle"
    /\ current = I
    /\ step_count = 0
    /\ result = NoResult
    /\ derived = 0
    /\ arg \in EvolveTerms \X EvolveRates
    /\ out = <<>>
    /\ frames = <<>>
    /\ NoRequests

Top == frames[Len(frames)]

(* the caller calls evolve(expr, mutation_rate) *)
EvolveCall ==
    /\ frames = <<>>
    /\ out = <<>>
    /\ frames' = <<[expr |-> arg[1], mutation_rate |-> arg[2], operand |-> "top"]>>
    /\ UNCHANGED <<max_steps, environment, trace, expr, pc, current, step_count,
                   result, derived, arg, out,
                   server>>

(* the draw is below the rate, the term is an application, and the coin
   picks an operand: evolve calls itself on it with mutation_rate / 2.0 *)
EvolveDescend_full_rate(operand) ==
    /\ frames # <<>>
    /\ MayMutate(Top.mutation_rate)
    /\ Tag(Top.expr) = "App"
    /\ frames' = Append(frames,
            [expr |-> IF operand = "left" THEN Top.expr[2] ELSE Top.expr[3],
             mutation_rate |-> Top.mutation_rate,
             operand |-> operand])
    /\ UNCHANGED <<max_steps, environment, trace, expr, pc, current, step_count,
                   result, derived, arg, out,
                   server>>

EvolveDescend(operand) ==
    /\ frames # <<>>
    /\ MayMutate(Top.mutation_rate)
    /\ Tag(Top.expr) = "App"
    /\ frames' = Append(frames,
            [expr |-> IF operand = "left" THEN Top.expr[2] ELSE Top.expr[3],
             mutation_rate |-> Half(Top.mutation_rate),
             operand |-> operand])
    /\ UNCHANGED <<max_steps, environment, trace, expr, pc, current, step_count,
                   result, derived, arg, out,
                   server>>

(* what the callers make of the value v returned by the innermost call:
   each one puts it back in the place of the operand it was called on,
   next to a clone of the other operand *)
RECURSIVE Unwind(_, _)
Unwind(fs, v) ==
    IF Len(fs) = 1
    THEN v
    ELSE LET caller == fs[Len(fs) - 1]
             rebuilt == IF fs[Len(fs)].operand = "left"
                        THEN app(v, caller.expr[3])
                        ELSE app(caller.expr[2], v)
         IN  Unwind(SubSeq(fs, 1, Len(fs) - 1), rebuilt)

(* the innermost call returns without calling evolve again: a clone of its
   term (the draw was not below the rate), or the mutation of a term that
   is not an application; every caller then returns in turn *)
EvolveReturn ==
    /\ frames # <<>>
    /\ \E v \in (IF MaySkip(Top.mutation_rate) THEN {Top.expr} ELSE {})
                 \cup (IF MayMutate(Top.mutation_rate) /\ Tag(Top.expr) # "App"
                       THEN Mutated(Top.expr, Top.mutation_rate)
                       ELSE {}) :
          out' = <<Unwind(frames, v)>>
    /\ frames' = <<>>
    /\ UNCHANGED <<max_steps, environment, trace, expr, pc, current, step_count,
                   result, derived, arg,
                   server>>

NextEvolve ==
    \/ EvolveCall
    \/ \E operand \in {"left", "right"} : EvolveDescend(operand)
    \/ EvolveReturn

SpecEvolve == InitEvolve /\ [][NextEvolve]_vars

-----------------------------------------------------------------------------
(* One engine called again and again: the caller keeps the ReductionTrace of
   one normalize call together with the term, environment and budget of
   that call, goes on using the engine, and later submits the same term
   again. *)

TwiceInputs ==
    {app(I, sym("a")), app(app(app(S, I), I), sym("a")), var("x"),
     quine(sym("a")), Muse("m", 998), app(K, sym("a")),
     app(var("x"), Muse("m", 9))}

TwiceBudgets == {1, 3, DefaultMaxSteps}
TwiceSeeds == {"seed", "b"}
TwiceValues == {sym("a"), var("y")}

InitTwice ==
    /\ max_steps = DefaultMaxSteps
    /\ environment = EmptyEnvironment
    /\ trace = <<>>
    /\ expr \in TwiceInputs
    /\ pc = "idle"
    /\ current = I
    /\ step_count = 0
    /\ result = NoResult
    /\ derived = 0
    /\ arg = <<>>
    /\ out = <<>>
    /\ frames = <<>>
    /\ NoRequests

(* the caller keeps what normalize returned, and what it was called with *)
Remember ==
    /\ pc = "returned"
    /\ out = <<>>
    /\ arg' = <<expr, environment, max_steps, derived>>
    /\ out' = <<result>>
    /\ UNCHANGED <<max_steps, environment, trace, expr, pc, current, step_count,
                   result, derived, frames,
                   server>>

(* the caller takes up the term of the kept call again *)
Recall ==
    /\ Idle
    /\ out # <<>>
    /\ expr' = arg[1]
    /\ Forget
    /\ UNCHANGED <<max_steps, environment, trace, derived, call,
                   server>>

NextTwice ==
    \/ \E n \in TwiceBudgets : WithMaxSteps(n)
    \/ \E t \in TwiceValues : Bind("x", t)
    \/ NormalizeCall
    \/ NormalizeStep
    \/ NormalizeReturn
    \/ \E rt \in Rates : Evolve(rt)
    \/ \E seed \in TwiceSeeds : CreateQuine(seed)
    \/ Resubmit
    \/ Remember
    \/ Recall

SpecTwice == InitTwice /\ [][NextTwice]_vars

-----------------------------------------------------------------------------
(* an engine whose caller binds two names to two values between calls *)

FrameInputs == {app(I, var("x")), Muse("m", 900), quine(sym("a"))}
FrameBudgets == {2, DefaultMaxSteps}

InitFrame ==
    /\ max_steps = DefaultMaxSteps
    /\ environment = EmptyEnvironment
    /\ trace = <<>>
    /\ expr \in FrameInputs
    /\ pc = "idle"
    /\ current = I
    /\ step_count = 0
    /\ result = NoResult
    /\ derived = 0
    /\ arg = <<>>
    /\ out = <<>>
    /\ frames = <<>>
    /\ NoRequests

NextFrame ==
    \/ \E n \in FrameBudgets : WithMaxSteps(n)
    \/ \E name \in BindNames, t \in TwiceValues : Bind(name, t)
    \/ NormalizeCall
    \/ NormalizeStep
    \/ NormalizeReturn
    \/ \E rt \in Rates : Evolve(rt)
    \/ \E seed \in Seeds : CreateQuine(seed)
    \/ Resubmit
    \/ Remember

SpecFrame == InitFrame /\ [][NextFrame]_vars

-----------------------------------------------------------------------------
(* The HTTP server: every request runs its handler as a task of its own, and
   every handler locks the one runtime before it calls into it.  A handler is
   a record: kind of request, position, the token id it computed, and
   whether its call returned Ok. *)

Kinds == {"nft", "poem", "quine", "cleanup"}

Handler(kind) == [kind |-> kind, pc |-> "lock", token_id |-> 0, ok |-> FALSE]

InitServer ==
    /\ max_steps = DefaultMaxSteps
    /\ environment = EmptyEnvironment
    /\ trace = <<>>
    /\ expr = I
    /\ pc = "idle"
    /\ current = I
    /\ step_count = 0
    /\ result = NoResult
    /\ derived = 0
    /\ arg = <<>>
    /\ out = <<>>
    /\ frames = <<>>
    /\ mutex = None
    /\ runtime = MetaMemeRuntime_new
    /\ handlers = <<>>

At(h, where) == h \in 1..Len(handlers) /\ handlers[h].pc = where

Goto(h, where) == [handlers EXCEPT ![h].pc = where]

(* the router hands a request to its handler *)
Accept(kind) ==
    /\ Len(handlers) < MaxRequests
    /\ handlers' = Append(handlers, Handler(kind))
    /\ UNCHANGED <<engine, mutex, runtime>>

(* a lock taken whether or not another handler holds it *)
Lock_unguarded(h) ==
    /\ At(h, "lock")
    /\ mutex' = Some(h)
    /\ handlers' = Goto(h, "call")
    /\ UNCHANGED <<engine, runtime>>

(* state.lock().unwrap(): waits until no handler holds the mutex *)
Lock(h) ==
    /\ At(h, "lock")
    /\ mutex = None
    /\ mutex' = Some(h)
    /\ handlers' = Goto(h, "call")
    /\ UNCHANGED <<engine, runtime>>

(* get_or_create_session with no session id: a session under a fresh uuid *)
WithSession(h) == [runtime EXCEPT !.sessions = @ \cup {h}]

(* generate_nft up to the token id: the session, then the cache length + 1 *)
GenerateNftTokenId(h) ==
    /\ At(h, "call")
    /\ handlers[h].kind = "nft"
    /\ runtime' = WithSession(h)
    /\ handlers' = [handlers EXCEPT
            ![h].token_id = Cardinality(DOMAIN runtime.nft_cache) + 1,
            ![h].pc = "metadata"]
    /\ UNCHANGED <<engine, mutex>>

(* HashMap::insert: the value under the key is set, replacing an earlier one *)
Insert(cache, key, value) ==
    [k \in DOMAIN cache \cup {key} |-> IF k = key THEN value ELSE cache[k]]

(* generate_nft from generate_nft_metadata on: an Err returns before the
   cache is written, an Ok value is inserted under the token id.  The clock
   read that follows the insert succeeds as the one that opened the call
   did, so a call that inserts returns Ok. *)
GenerateNftInsert(h, ok) ==
    /\ At(h, "metadata")
    /\ runtime' = IF ok
                  THEN [runtime EXCEPT !.nft_cache =
                           Insert(@, handlers[h].token_id,
                                  [token_id |-> handlers[h].token_id,
                                   minted_by |-> h])]
                  ELSE runtime
    /\ handlers' = [handlers EXCEPT ![h].ok = ok, ![h].pc = "unlock"]
    /\ UNCHANGED <<engine, mutex>>

(* generate_poem: the session, then the poem cached under a fresh uuid *)
GeneratePoem(h) ==
    /\ At(h, "call")
    /\ handlers[h].kind = "poem"
    /\ runtime' = [WithSession(h) EXCEPT !.poems_cache = @ \cup {h}]
    /\ handlers' = [handlers EXCEPT ![h].ok = TRUE, ![h].pc = "unlock"]
    /\ UNCHANGED <<engine, mutex>>

(* MetaMemeRuntime::create_quine: the session and its statistics only *)
RuntimeCreateQuine(h) ==
    /\ At(h, "call")
    /\ handlers[h].kind = "quine"
    /\ runtime' = WithSession(h)
    /\ handlers' = [handlers EXCEPT ![h].ok = TRUE, ![h].pc = "unlock"]
    /\ UNCHANGED <<engine, mutex>>

(* cleanup: retain drops the sessions and poems that are old enough; how old
   each one is depends on the clock, so any of them may go *)
Cleanup(h) ==
    /\ At(h, "call")
    /\ handlers[h].kind = "cleanup"
    /\ \E kept_sessions \in SUBSET runtime.sessions,
          kept_poems \in SUBSET runtime.poems_cache :
          runtime' = [runtime EXCEPT !.sessions = kept_sessions,
                                     !.poems_cache = kept_poems]
    /\ handlers' = [handlers EXCEPT ![h].ok = TRUE, ![h].pc = "unlock"]
    /\ UNCHANGED <<engine, mutex>>

(* the handler returns and its MutexGuard is dropped *)
Unlock(h) ==
    /\ At(h, "unlock")
    /\ mutex' = None
    /\ handlers' = Goto(h, "done")
    /\ UNCHANGED <<engine, runtime>>

NextServer ==
    \/ \E kind \in Kinds : Accept(kind)
    \/ \E h \in 1..MaxRequests : Lock(h)
    \/ \E h \in 1..MaxRequests : GenerateNftTokenId(h)
    \/ \E h \in 1..MaxRequests, ok \in BOOLEAN : GenerateNftInsert(h, ok)
    \/ \E h \in 1..MaxRequests : GeneratePoem(h)
    \/ \E h \in 1..MaxRequests : RuntimeCreateQuine(h)
    \/ \E h \in 1..MaxRequests : Cleanup(h)
    \/ \E h \in 1..MaxRequests : Unlock(h)

SpecServer == InitServer /\ [][NextServer]_vars

-----------------------------------------------------------------------------
(* beta_reduce on its own: one rewrite of one term under one environment *)

RewriteBase ==
    {var("x"), var("y"), sym("a"), S, K, I, Muse("m", 500), Muse("m", 1000),
     identity, quine(sym("a")), dna(<<1, 2>>)}

RewriteFlat == RewriteBase \cup {app(a, b) : a, b \in RewriteBase}

RewriteFew ==
    {sym("b"), var("x"), app(I, sym("a")), app(sym("a"), sym("b")),
     Muse("m", 9), lambda("y", app(I, var("x")))}

RewriteDeep ==
    {app(a, b) : a \in RewriteFlat, b \in RewriteFew}
    \cup {app(a, b) : a \in RewriteFew, b \in RewriteFlat}

SArgs ==
    {sym("a"), I, K, var("x"), app(I, sym("a")), quine(sym("a")),
     app(app(S, K), K)}

SLawTerms == {app(app(app(S, f), g), x) : f, g, x \in SArgs}

MuseApps ==
    {app(Muse("m", r), x) : r \in 0..ResonanceScale,
                            x \in {sym("a"), app(I, sym("a"))}}

RewriteTerms == RewriteFlat \cup RewriteDeep \cup SLawTerms \cup MuseApps

RewriteEnvs ==
    {EmptyEnvironment,
     [n \in {"x"} |-> sym("a")],
     [n \in {"x", "y"} |-> IF n = "x" THEN var("y") ELSE I]}

InitRewrite ==
    /\ max_steps = DefaultMaxSteps
    /\ environment = EmptyEnvironment
    /\ trace = <<>>
    /\ expr = I
    /\ pc = "idle"
    /\ current = I
    /\ step_count = 0
    /\ result = NoResult
    /\ derived = 0
    /\ arg \in RewriteTerms \X RewriteEnvs
    /\ out = <<>>
    /\ frames = <<>>
    /\ NoRequests

ApplyRewrite ==
    /\ out = <<>>
    /\ out' = <<beta_reduce(arg[1], arg[2])>>
    /\ UNCHANGED <<max_steps, environment, trace, expr, pc, current, step_count,
                   result, derived, arg, frames,
                   server>>

SpecRewrite == InitRewrite /\ [][ApplyRewrite]_vars

-----------------------------------------------------------------------------
(* Properties *)

AllSymbols == Symbols \cup {mutations[i] : i \in 1..Len(mutations)}

Returned == pc = "returned"
DefaultEngine == environment = EmptyEnvironment /\ max_steps = DefaultMaxSteps

(* C1: for every symbol y, normalizing (\x.x) y on an engine with the empty
   environment and the default budget returns final_form = Sym(y),
   step_count = 1 and is_normal_form = true. *)
C1_IdentityBeta ==
    \A y \in AllSymbols :
        (Returned /\ DefaultEngine /\ expr = app(lambda("x", var("x")), sym(y)))
        => /\ result.final_form = sym(y)
           /\ result.step_count = 1
           /\ result.is_normal_form

C1_Witness ==
    /\ Returned /\ DefaultEngine
    /\ expr = app(lambda("x", var("x")), sym("b"))
    /\ result.final_form = sym("b")

(* C2: for all terms a and b with a irreducible, normalizing K a b on an
   engine that may take a step returns final_form = a: the K law fires in
   one step, and b is dropped without being rewritten (the trace holds the
   input and a, nothing else). *)
C2_KLaw ==
    (Returned /\ max_steps >= 1
     /\ Tag(expr) = "App" /\ Tag(expr[2]) = "App" /\ expr[2][2] = K
     /\ ~IsSome(beta_reduce(expr[2][3], environment)))
    => /\ result.final_form = expr[2][3]
       /\ result.step_count = 1
       /\ result.steps = <<Display(expr), Display(expr[2][3])>>

C2_Witness ==
    /\ Returned
    /\ expr = app(app(K, sym("a")), app(y_combinator, identity))
    /\ result.final_form = sym("a")

(* C3: for every symbol x, normalizing S K K x on an engine with the empty
   environment and the default budget ends with final_form = Sym(x) and
   is_normal_form = true. *)
C3_SKKIdentity ==
    \A x \in AllSymbols :
        (Returned /\ DefaultEngine /\ expr = app(app(app(S, K), K), sym(x)))
        => /\ result.final_form = sym(x)
           /\ result.is_normal_form

C3_Witness ==
    /\ Returned /\ DefaultEngine
    /\ expr = app(app(app(S, K), K), sym("a"))
    /\ result.final_form = sym("a")
    /\ result.step_count = 2

(* C4: for every symbol z, normalizing I z on an engine with the default
   budget returns final_form = Sym(z), step_count = 1 and
   is_normal_form = true. *)
C4_ICombinator ==
    \A z \in AllSymbols :
        (Returned /\ max_steps = DefaultMaxSteps /\ expr = app(I, sym(z)))
        => /\ result.final_form = sym(z)
           /\ result.step_count = 1
           /\ result.is_normal_form

C4_Witness ==
    /\ Returned /\ max_steps = DefaultMaxSteps
    /\ expr = app(I, sym("a"))
    /\ result.final_form = sym("a")
    /\ environment # EmptyEnvironment

YApplied == Tag(expr) = "App" /\ expr[2] = y_combinator /\ Tag(expr[3]) = "Lambda"

IsIdentity(t) == Tag(t) = "Lambda" /\ t[3] = var(t[2])

(* C5 as stated: for every abstraction F and every budget, normalizing Y F
   never reaches a fixed point: the trace has is_normal_form = false and
   step_count = max_steps. *)
C5_YNeverEnds ==
    (Returned /\ YApplied)
    => (~result.is_normal_form /\ result.step_count = max_steps)

(* C5 as amended: for every identity abstraction F = \p.p and every budget,
   normalizing Y F never reaches a fixed point: every term of the run can
   be rewritten, and the trace has is_normal_form = false and
   step_count = max_steps. *)
C5_YIdentityNeverEnds ==
    (YApplied /\ IsIdentity(expr[3]))
    => /\ pc = "loop" => IsSome(beta_reduce(current, environment))
       /\ Returned => (~result.is_normal_form /\ result.step_count = max_steps)

C5_Witness ==
    /\ Returned
    /\ expr = app(y_combinator, lambda("x", var("x")))
    /\ max_steps = MaxBudget
    /\ result.step_count = MaxBudget
    /\ ~result.is_normal_form

(* C6: for every term, environment and budget, normalize ends after at most
   max_steps rewrites and returns a trace with step_count <= max_steps:
   inside the loop step_count never exceeds max_steps and the loop can
   always either rewrite or return; every move of the loop is one rewrite
   that adds one to step_count, or the return of a trace with that count. *)
C6_BoundedRun ==
    /\ [](pc = "loop" =>
            /\ step_count <= max_steps
            /\ Len(trace) = step_count + 1
            /\ (ENABLED NormalizeStep \/ ENABLED NormalizeReturn))
    /\ [][pc = "loop" =>
            \/ /\ pc' = "loop"
               /\ step_count' = step_count + 1
               /\ step_count' <= max_steps
            \/ /\ pc' = "returned"
               /\ result'.step_count = step_count
               /\ result'.step_count <= max_steps]_vars

C6_Witness ==
    /\ Returned
    /\ max_steps = MaxBudget
    /\ result.step_count = max_steps
    /\ IsSome(beta_reduce(result.final_form, environment))

(* C7: for every term, environment and budget, is_normal_form is true if
   and only if the one-step rewrite returns no change on final_form. *)
C7_FlagIffFixedPoint ==
    Returned =>
        (result.is_normal_form
            <=> ~IsSome(beta_reduce(result.final_form, environment)))

(* C8: in every returned trace, steps has step_count + 1 entries, the first
   renders the input, the last renders final_form, and each entry after the
   first renders the one-step rewrite of the term rendered before it. *)
C8_TraceShape ==
    Returned =>
        /\ Len(result.steps) = result.step_count + 1
        /\ Len(trace) = Len(result.steps)
        /\ result.steps[1] = Display(expr)
        /\ result.steps[Len(result.steps)] = Display(result.final_form)
        /\ \A i \in 1..(Len(result.steps) - 1) :
              LET reduced == beta_reduce(trace[i], environment) IN
              /\ result.steps[i] = Display(trace[i])
              /\ IsSome(reduced)
              /\ result.steps[i + 1] = Display(Unwrap(reduced))

C8_Witness ==
    /\ Returned
    /\ expr = app(app(app(S, I), I), sym("a"))
    /\ result.steps = <<"(((S I) I) a)", "((I a) (I a))", "(a (I a))", "(a a)">>

RECURSIVE MuseInRange(_)
MuseInRange(t) ==
    CASE Tag(t) = "Muse" -> t[3] >= 0 /\ t[3] <= ResonanceScale
      [] Tag(t) = "Lambda" -> MuseInRange(t[3])
      [] Tag(t) = "App" -> MuseInRange(t[2]) /\ MuseInRange(t[3])
      [] Tag(t) = "Quine" -> MuseInRange(t[2])
      [] OTHER -> TRUE

(* C9: every term reached from a term whose Muse leaves have resonance in
   0..1000, by one-step rewrites and evolve calls, has all its Muse leaves
   in 0..1000. *)
C9_ResonanceInRange ==
    /\ MuseInRange(expr)
    /\ MuseInRange(current)
    /\ \A i \in 1..Len(trace) : MuseInRange(trace[i])

(* body with every free occurrence of v replaced, at any depth *)
RECURSIVE ReplaceFree(_, _, _)
ReplaceFree(body, v, replacement) ==
    CASE Tag(body) = "Var" -> IF body[2] = v THEN replacement ELSE body
      [] Tag(body) = "Lambda" ->
            IF body[2] = v
            THEN body
            ELSE lambda(body[2], ReplaceFree(body[3], v, replacement))
      [] Tag(body) = "App" ->
            app(ReplaceFree(body[2], v, replacement),
                ReplaceFree(body[3], v, replacement))
      [] Tag(body) = "Quine" -> quine(ReplaceFree(body[2], v, replacement))
      [] OTHER -> body

(* C10: substitute(body, v, r) is body with every free occurrence of v, at
   any depth of the tree, replaced by r and nothing else changed; an
   abstraction whose parameter is v is returned unchanged. *)
C10_SubstituteAllFree ==
    out # <<>> => out[1] = ReplaceFree(arg[1], arg[2], arg[3])

(* the number of free occurrences of the variable n in t that substitute
   reaches (it does not look inside a Quine) *)
RECURSIVE FreeCount(_, _)
FreeCount(t, n) ==
    CASE Tag(t) = "Var" -> IF t[2] = n THEN 1 ELSE 0
      [] Tag(t) = "Lambda" -> IF t[2] = n THEN 0 ELSE FreeCount(t[3], n)
      [] Tag(t) = "App" -> FreeCount(t[2], n) + FreeCount(t[3], n)
      [] OTHER -> 0

(* the binders, other than v, that enclose a free occurrence of v in t *)
RECURSIVE Enclosing(_, _)
Enclosing(t, v) ==
    CASE Tag(t) = "Lambda" ->
            IF t[2] = v \/ FreeCount(t[3], v) = 0
            THEN {}
            ELSE {t[2]} \cup Enclosing(t[3], v)
      [] Tag(t) = "App" -> Enclosing(t[2], v) \cup Enclosing(t[3], v)
      [] OTHER -> {}

(* C11: substitute performs no alpha-renaming: substituting Var("y") for x
   in \y.x yields \y.y; an abstraction keeps its binder, and whenever a
   binder p other than the substituted name encloses a replaced occurrence
   and p is free in the replacement, that p is captured: the result has
   fewer free occurrences of p than a capture-avoiding substitution would
   leave. *)
C11_NoAlphaRenaming ==
    out # <<>> =>
        LET body == arg[1]
            v == arg[2]
            replacement == arg[3]
        IN  /\ (body = lambda("y", var("x")) /\ v = "x" /\ replacement = var("y"))
                => out[1] = lambda("y", var("y"))
            /\ Tag(body) = "Lambda"
                => (Tag(out[1]) = "Lambda" /\ out[1][2] = body[2])
            /\ \A p \in Enclosing(body, v) :
                  FreeCount(replacement, p) > 0
                  => FreeCount(out[1], p)
                        < FreeCount(body, p)
                          + FreeCount(body, v) * FreeCount(replacement, p)

C11_Witness ==
    /\ arg = <<lambda("y", lambda("z", var("x"))), "x", var("y")>>
    /\ out = <<lambda("y", lambda("z", var("y")))>>

(* the terms the engine is working on: the caller's term and the loop's
   current term (every term of a trace has been the current one) *)
Held == {expr, current}

(* C12: the one-step rewrite of a bare Quine(t) is t itself, for every
   Quine(t) the engine holds; and for every symbol s, normalizing
   Quine(Sym(s)) with a budget of at least two steps, whatever the
   environment, returns final_form = Sym(s), step_count = 1 and
   is_normal_form = true, the trace being the input followed by Sym(s):
   no re-wrapped Quine is produced. *)
C12_QuineUnwraps ==
    /\ \A t \in Held :
          Tag(t) = "Quine" => beta_reduce(t, environment) = Some(t[2])
    /\ \A s \in AllSymbols :
          (Returned /\ max_steps >= 2 /\ expr = quine(sym(s)))
          => /\ result.final_form = sym(s)
             /\ result.step_count = 1
             /\ result.is_normal_form
             /\ trace = <<quine(sym(s)), sym(s)>>
             /\ result.steps = <<Display(quine(sym(s))), s>>

C12_Witness ==
    /\ Returned
    /\ expr = quine(sym("b"))
    /\ max_steps = DefaultMaxSteps
    /\ result.final_form = sym("b")
    /\ result.step_count = 1

(* C13: each one-step rewrite of a bare Muse(n, r) with r < 1000 yields
   Muse(n, r + 1), and Muse(n, 1000) is inert; hence normalizing Muse(n, r)
   with a budget larger than 1000 - r ends at Muse(n, 1000) after exactly
   1000 - r steps with is_normal_form = true. *)
C13_MuseSaturates ==
    /\ \A t \in Held :
          Tag(t) = "Muse" =>
              beta_reduce(t, environment) =
                  IF t[3] < ResonanceScale THEN Some(Muse(t[2], t[3] + 1)) ELSE None
    /\ (Returned /\ Tag(expr) = "Muse" /\ expr[3] <= ResonanceScale
         /\ max_steps > ResonanceScale - expr[3])
        => /\ result.final_form = Muse(expr[2], ResonanceScale)
           /\ result.step_count = ResonanceScale - expr[3]
           /\ result.is_normal_form

EvolveReturned == frames = <<>> /\ out # <<>>

(* C14: for every term t, evolve(t, 0.0) returns a term structurally equal
   to t, whatever the random source produces: no call of evolve is nested
   in it, and the value returned is t. *)
C14_EvolveZeroRate ==
    arg[2] = <<0, 1>> =>
        /\ Len(frames) <= 1
        /\ EvolveReturned => out[1] = arg[1]
        /\ evolve(arg[1], arg[2]) = {arg[1]}

C14_Witness ==
    /\ EvolveReturned
    /\ arg = <<app(sym("b"), app(Muse("m", 1000), sym("a"))), <<0, 1>>>>
    /\ out[1] = arg[1]

(* C15: for every Muse(n, r) with r in 0..1000, evolve(Muse(n, r), 1.0)
   returns Muse(n, r') with the same name and
   max(0, r - 100) <= r' <= min(1000, r + 100); for r = 500 the result
   resonance is in 400..600. *)
C15_MuseWithinHundred ==
    (EvolveReturned /\ Tag(arg[1]) = "Muse" /\ arg[1][3] \in 0..ResonanceScale
     /\ arg[2] = <<1, 1>>)
    => /\ Tag(out[1]) = "Muse"
       /\ out[1][2] = arg[1][2]
       /\ out[1][3] >= Clamp(arg[1][3] - 100, 0, ResonanceScale)
       /\ out[1][3] <= Clamp(arg[1][3] + 100, 0, ResonanceScale)
       /\ arg[1][3] = 500 => out[1][3] \in 400..600

(* b is a with at most one operand changed, at every application down the
   one path that was evolved *)
RECURSIVE OneOperandChanged(_, _)
OneOperandChanged(a, b) ==
    \/ Tag(a) # "App"
    \/ a = b
    \/ /\ Tag(b) = "App"
       /\ \/ b[3] = a[3] /\ OneOperandChanged(a[2], b[2])
          \/ b[2] = a[2] /\ OneOperandChanged(a[3], b[3])

(* C16: for every application App(l, r) and every mutation rate, evolve
   returns App(l', r) or App(l, r'): at most one operand differs from the
   input and the other is returned unchanged; every nested call of evolve is
   made by a call on an application, on one of its two operands, with half
   the caller's mutation rate. *)
C16_OneOperandEvolves ==
    /\ \A i \in 2..Len(frames) :
          LET caller == frames[i - 1]
              callee == frames[i]
          IN  /\ Tag(caller.expr) = "App"
              /\ \/ callee.operand = "left" /\ callee.expr = caller.expr[2]
                 \/ callee.operand = "right" /\ callee.expr = caller.expr[3]
              /\ 2 * callee.mutation_rate[1] * caller.mutation_rate[2]
                    = caller.mutation_rate[1] * callee.mutation_rate[2]
    /\ (EvolveReturned /\ Tag(arg[1]) = "App")
        => /\ Tag(out[1]) = "App"
           /\ out[1][2] = arg[1][2] \/ out[1][3] = arg[1][3]
           /\ OneOperandChanged(arg[1], out[1])

C16_Witness ==
    /\ EvolveReturned
    /\ arg = <<app(sym("b"), app(Muse("m", 1000), sym("a"))), <<2, 1>>>>
    /\ out[1] = app(sym("b"), app(Muse("m", 1000), sym("dna")))

(* C17: for every symbol x, normalizing S I I x with a budget of at least
   four steps follows S I I x -> (I x)(I x) -> x (I x) -> x x: exactly 3
   steps, ending at App(Sym(x), Sym(x)) with is_normal_form = true. *)
C17_SIISelfApplication ==
    \A x \in AllSymbols :
        (Returned /\ max_steps >= 4 /\ expr = app(app(app(S, I), I), sym(x)))
        => /\ trace = <<app(app(app(S, I), I), sym(x)),
                        app(app(I, sym(x)), app(I, sym(x))),
                        app(sym(x), app(I, sym(x))),
                        app(sym(x), sym(x))>>
           /\ result.step_count = 3
           /\ result.step_count > 0
           /\ result.final_form = app(sym(x), sym(x))
           /\ result.is_normal_form

C17_Witness ==
    /\ Returned /\ DefaultEngine
    /\ expr = app(app(app(S, I), I), sym("b"))
    /\ result.final_form = app(sym("b"), sym("b"))
    /\ result.step_count = 3
    /\ result.is_normal_form

(* C18: the one-step rewrite of Var(n) yields the term bound to n when n is
   bound in the environment and no change otherwise; an unresolved variable
   is not an error: with the empty environment and a budget of at least
   one, normalize(Var(n)) returns Var(n) with step_count = 0 and
   is_normal_form = true; with n bound and such a budget, the first rewrite
   of the run is the bound term. *)
C18_VariableLookup ==
    /\ \A t \in Held :
          Tag(t) = "Var" =>
              /\ t[2] \in DOMAIN environment
                    => beta_reduce(t, environment) = Some(environment[t[2]])
              /\ t[2] \notin DOMAIN environment
                    => beta_reduce(t, environment) = None
    /\ (Returned /\ Tag(expr) = "Var" /\ max_steps >= 1)
        => IF expr[2] \in DOMAIN environment
           THEN result.step_count >= 1 /\ trace[2] = environment[expr[2]]
           ELSE /\ result.final_form = expr
                /\ result.step_count = 0
                /\ result.is_normal_form
                /\ result.steps = <<expr[2]>>

C18_Witness ==
    /\ Returned
    /\ expr = var("x")
    /\ environment = EmptyEnvironment
    /\ max_steps = 1
    /\ result.final_form = var("x")
    /\ result.step_count = 0
    /\ result.is_normal_form

(* C19: normalize carries no memory between calls: a normalize call on the
   same engine with the term, the environment and the budget of an earlier
   call returns a trace equal to the earlier one (steps, step_count,
   final_form, is_normal_form), whatever normalize, evolve, create_quine,
   bind and with_max_steps calls were made in between. *)
C19_NoMemory ==
    (Returned /\ out # <<>>
     /\ arg[1] = expr /\ arg[2] = environment /\ arg[3] = max_steps)
    => /\ result.steps = out[1].steps
       /\ result.step_count = out[1].step_count
       /\ result.final_form = out[1].final_form
       /\ result.is_normal_form = out[1].is_normal_form

(* the kept call ran S I I a three steps on an engine with x bound; a term
   has been derived since, and the same call has returned again *)
C19_Witness ==
    /\ Returned /\ out # <<>>
    /\ arg[1] = expr /\ arg[2] = environment /\ arg[3] = max_steps
    /\ expr = app(app(app(S, I), I), sym("a"))
    /\ environment # EmptyEnvironment
    /\ arg[4] < derived
    /\ result.step_count = 3
    /\ result = out[1]

(* C20: for every seed s, create_quine(s) returns exactly
   Quine(App(Lambda("x", App(Var("x"), Var("x"))),
             Lambda("y", App(Sym(s), Var("y"))))),
   whatever the engine's environment and budget, and leaves both as they
   were. *)
C20_QuineShape ==
    [][\A s \in TwiceSeeds :
         CreateQuine(s) =>
            /\ expr' = <<"Quine",
                         <<"App",
                           <<"Lambda", "x", <<"App", <<"Var", "x">>, <<"Var", "x">>>>>>,
                           <<"Lambda", "y", <<"App", <<"Sym", s>>, <<"Var", "y">>>>>>>>>>
            /\ Display(expr') = "~Q((^x.(x x) ^y.(" \o s \o " y)))"
            /\ UNCHANGED <<max_steps, environment, trace>>]_vars

C20_Witness ==
    /\ derived = 1
    /\ expr = quine(app(lambda("x", app(var("x"), var("x"))),
                        lambda("y", app(sym("b"), var("y")))))
    /\ environment # EmptyEnvironment
    /\ max_steps = 3

Rewritten == out # <<>>

(* C21: for all terms f, g and x, reducible or not, the one-step rewrite of
   App(App(App(S, f), g), x) is App(App(f, x), App(g, x)): the
   three-argument S law comes before any rewrite inside f, g or x. *)
C21_SLawFirst ==
    (Rewritten /\ Tag(arg[1]) = "App" /\ Tag(arg[1][2]) = "App"
     /\ Tag(arg[1][2][2]) = "App" /\ arg[1][2][2][2] = S)
    => LET f == arg[1][2][2][3]
           g == arg[1][2][3]
           x == arg[1][3]
       IN  out[1] = Some(app(app(f, x), app(g, x)))

C21_Witness ==
    /\ arg[1] = app(app(app(S, app(I, sym("a"))), quine(sym("a"))), var("x"))
    /\ "x" \in DOMAIN arg[2]
    /\ out = <<Some(app(app(app(I, sym("a")), var("x")),
                        app(quine(sym("a")), var("x"))))>>

(* C22: every rewrite that normalize counts changes the term: in any trace
   the term appended at a step is never structurally equal to the term
   before it; a term that no one-step rewrite can change, an application of
   K to a single argument included, stops the loop as a normal form (no
   step counted and, with a budget of at least one, is_normal_form = true). *)
C22_CountedStepsChange ==
    /\ \A i \in 1..(Len(trace) - 1) : trace[i + 1] # trace[i]
    /\ (Returned /\ max_steps >= 1 /\ Tag(expr) = "App" /\ expr[2] = K
         /\ ~IsSome(beta_reduce(expr[3], environment)))
        => /\ result.step_count = 0
           /\ result.final_form = expr
           /\ result.is_normal_form

(* C23: for every term x, the one-step rewrite of App(S, x) is
   App(App(S, x), I), with x copied unreduced; the full S law is not applied
   at this point. *)
C23_SPartial ==
    (Rewritten /\ Tag(arg[1]) = "App" /\ arg[1][2] = S)
    => out[1] = Some(app(app(S, arg[1][3]), I))

C23_Witness ==
    /\ arg[1] = app(S, app(I, sym("a")))
    /\ out = <<Some(app(app(S, app(I, sym("a"))), I))>>

(* the left operands for which an application has a rule of its own: beta,
   S, K, I, Muse, Quine, and the three-argument S law and two-argument K law *)
HasOwnRule(left) ==
    \/ Tag(left) \in {"Lambda", "S", "K", "I", "Muse", "Quine"}
    \/ /\ Tag(left) = "App"
       /\ \/ Tag(left[2]) = "App" /\ left[2][2] = S
          \/ left[2] = K

(* C24: when an application matches none of the special rules, a step
   rewrites exactly one operand: the left operand if it can be rewritten,
   otherwise the right operand; the right operand is never rewritten while
   the left one is reducible, the untouched operand is copied unchanged, and
   there is no change when neither operand can be rewritten. *)
C24_LeftThenRight ==
    (Rewritten /\ Tag(arg[1]) = "App" /\ ~HasOwnRule(arg[1][2]))
    => LET left == arg[1][2]
           right == arg[1][3]
           reduced_left == beta_reduce(left, arg[2])
           reduced_right == beta_reduce(right, arg[2])
       IN  /\ IsSome(reduced_left)
                => out[1] = Some(app(Unwrap(reduced_left), right))
           /\ (~IsSome(reduced_left) /\ IsSome(reduced_right))
                => out[1] = Some(app(left, Unwrap(reduced_right)))
           /\ (~IsSome(reduced_left) /\ ~IsSome(reduced_right))
                => out[1] = None

C24_Witness ==
    /\ arg[1] = app(app(var("x"), sym("a")), app(I, sym("a")))
    /\ arg[2] = [n \in {"x"} |-> sym("a")]
    /\ out = <<Some(app(app(sym("a"), sym("a")), app(I, sym("a"))))>>

(* C25: with any budget of at least one, normalize of a bare Lambda
   (whatever its body, even one holding redexes or environment-bound
   variables), S, K, I, Sym or DNA performs 0 steps and returns the input
   unchanged with is_normal_form = true: nothing is reduced under an
   abstraction. *)
C25_InertLeaves ==
    (Tag(expr) \in {"Lambda", "S", "K", "I", "Sym", "DNA"})
    => /\ beta_reduce(expr, environment) = None
       /\ (Returned /\ max_steps >= 1)
            => /\ result.step_count = 0
               /\ result.final_form = expr
               /\ result.is_normal_form
               /\ trace = <<expr>>

C25_Witness ==
    /\ Returned
    /\ expr = lambda("z", app(I, var("x")))
    /\ "x" \in DOMAIN environment
    /\ max_steps = 1
    /\ result.step_count = 0
    /\ result.final_form = expr
    /\ result.is_normal_form

(* C26: for every Muse(n, r) and term x, the one-step rewrite of
   App(Muse(n, r), x) is a single Muse leaf, named n + "+" + the rendering
   of x, whose resonance is r increased by 1%: r * 101 / 100 truncated to
   integer millis. *)
C26_MuseBonus ==
    (Rewritten /\ Tag(arg[1]) = "App" /\ Tag(arg[1][2]) = "Muse")
    => /\ IsSome(out[1])
       /\ Tag(Unwrap(out[1])) = "Muse"
       /\ Unwrap(out[1])[2] = arg[1][2][2] \o "+" \o Display(arg[1][3])
       /\ Unwrap(out[1])[3] = (arg[1][2][3] * 101) \div 100

(* the head of an application spine *)
RECURSIVE SpineHead(_)
SpineHead(t) == IF Tag(t) = "App" THEN SpineHead(t[2]) ELSE t

(* t holds, outside abstraction bodies, no Quine node, no Muse with
   resonance below 1000, no variable bound in env and no application whose
   left operand is a Lambda, S, K, I, Muse or Quine, and every application
   spine in it is headed by an unbound variable, a Sym or a DNA *)
RECURSIVE NormalShape(_, _)
NormalShape(t, env) ==
    CASE Tag(t) = "Var" -> t[2] \notin DOMAIN env
      [] Tag(t) = "Lambda" -> TRUE
      [] Tag(t) = "App" ->
            /\ Tag(t[2]) \notin {"Lambda", "S", "K", "I", "Muse", "Quine"}
            /\ Tag(SpineHead(t)) \in {"Var", "Sym", "DNA"}
            /\ NormalShape(t[2], env)
            /\ NormalShape(t[3], env)
      [] Tag(t) = "Muse" -> t[3] >= ResonanceScale
      [] Tag(t) = "Quine" -> FALSE
      [] OTHER -> TRUE

(* C27: every term that normalize returns with is_normal_form = true
   contains, outside abstraction bodies, no Quine node, no Muse with
   resonance below 1000, no environment-bound variable and no application
   whose left operand is a Lambda, S, K, I, Muse or Quine; every application
   spine in it is headed by an unbound variable, a Sym or a DNA. *)
C27_NormalFormShape ==
    (Returned /\ result.is_normal_form)
    => NormalShape(result.final_form, environment)

C27_Witness ==
    /\ Returned
    /\ result.is_normal_form
    /\ expr = app(var("y"), app(I, dna(<<1, 2>>)))
    /\ "x" \in DOMAIN environment
    /\ result.final_form = app(var("y"), dna(<<1, 2>>))

(* C28: for every seed s, normalize(create_quine(s)) on an engine with the
   empty environment and a budget of at least four stops after exactly 3
   steps with is_normal_form = true and
   final_form = App(Sym(s), Lambda("y", App(Sym(s), Var("y")))): the Quine
   wrapper is gone but the seed symbol still occurs in the result, and the
   step count reported is not negative. *)
C28_QuineRun ==
    \A s \in Seeds :
        (Returned /\ environment = EmptyEnvironment /\ max_steps >= 4
         /\ expr = create_quine(s))
        => /\ result.step_count = 3
           /\ result.step_count >= 0
           /\ result.is_normal_form
           /\ result.final_form =
                 <<"App", <<"Sym", s>>,
                   <<"Lambda", "y", <<"App", <<"Sym", s>>, <<"Var", "y">>>>>>>>
           /\ Tag(result.final_form) # "Quine"
           /\ s \in SymbolsOf(result.final_form)

C28_Witness ==
    /\ Returned
    /\ environment = EmptyEnvironment
    /\ max_steps = MaxBudget
    /\ expr = create_quine("b")
    /\ result.step_count = 3
    /\ result.final_form = app(sym("b"), lambda("y", app(sym("b"), var("y"))))

(* C29: normalize, create_quine and evolve never change the engine's
   environment or step budget; bind(name, t) sets exactly the binding of
   name to t, replacing an earlier binding of that name, and leaves every
   other binding and the step budget unchanged. *)
ReadOnlyStep ==
    \/ NormalizeCall
    \/ NormalizeStep
    \/ NormalizeReturn
    \/ \E rt \in Rates : Evolve(rt)
    \/ \E seed \in Seeds : CreateQuine(seed)

BindSetsExactly(name, t) ==
    /\ DOMAIN environment' = DOMAIN environment \cup {name}
    /\ environment'[name] = t
    /\ \A n \in DOMAIN environment \ {name} : environment'[n] = environment[n]
    /\ max_steps' = max_steps

C29_Frame ==
    [][ /\ ReadOnlyStep => UNCHANGED <<environment, max_steps>>
        /\ \A name \in BindNames, t \in TwiceValues :
              Bind(name, t) => BindSetsExactly(name, t) ]_vars

C29_Witness ==
    /\ Returned
    /\ out # <<>>
    /\ DOMAIN arg[2] = {"x", "y"}
    /\ arg[2]["x"] = var("y")
    /\ arg[2]["y"] = var("y")
    /\ DOMAIN environment = {"x", "y"}
    /\ environment["x"] = sym("a")
    /\ environment["y"] = var("y")
    /\ max_steps = arg[3]

(* C30: every handler holds the one runtime mutex for its whole operation,
   so under any interleaving of concurrent NFT, poem, quine and cleanup
   requests each generate_nft call assigns token_id = (number of NFTs cached
   so far) + 1: no two NFTs receive the same token id, no cached NFT is
   overwritten, and after n successful calls the cache keys are exactly
   1..n. *)
NftCalls == {h \in 1..Len(handlers) : handlers[h].kind = "nft"}

Minted == {h \in NftCalls : handlers[h].ok}

C30_TokenIds ==
    /\ \A h \in NftCalls :
          handlers[h].pc = "metadata"
          => /\ mutex = Some(h)
             /\ handlers[h].token_id = Cardinality(DOMAIN runtime.nft_cache) + 1
             /\ handlers[h].token_id \notin DOMAIN runtime.nft_cache
    /\ \A h, g \in Minted :
          h # g => handlers[h].token_id # handlers[g].token_id
    /\ \A h \in Minted :
          /\ handlers[h].token_id \in DOMAIN runtime.nft_cache
          /\ runtime.nft_cache[handlers[h].token_id] =
                [token_id |-> handlers[h].token_id, minted_by |-> h]
    /\ DOMAIN runtime.nft_cache = 1..Cardinality(Minted)

C30_Witness ==
    /\ Len(handlers) = 3
    /\ mutex = None
    /\ handlers[1] = [kind |-> "nft", pc |-> "done", token_id |-> 2, ok |-> TRUE]
    /\ handlers[2].kind = "cleanup"
    /\ handlers[2].pc = "done"
    /\ handlers[3] = [kind |-> "nft", pc |-> "done", token_id |-> 1, ok |-> TRUE]
    /\ DOMAIN runtime.nft_cache = {1, 2}

====
